---- MODULE Spec2Model ----
(***************************************************************************)
(* Smart Test Report Analyser: the extraction cascade of analyzer.py       *)
(* (parse_xml_report and its helpers), the categoriser                      *)
(* (categorize_message) and the run comparison of Streamlit_app.py.         *)
(*                                                                         *)
(* A parsed document (the BeautifulSoup object) is a sequence of elements   *)
(* in document order; every element carries its tag name, the index of its  *)
(* parent (0: the soup itself), its attributes and the text that stands     *)
(* directly in it, before its first child.  Text is a sequence of tokens.   *)
(***************************************************************************)
EXTENDS Integers, Sequences, FiniteSets, TLC

VARIABLES
    pc,         \* position of the running handler
    soup,       \* the parsed tree, BeautifulSoup(content, "lxml")
    hashOrder,  \* iteration order of the set FAILURE_CHILD_TAGS in this process
    results,    \* parse_xml_report: the list returned
    attempted,  \* parse_xml_report: the tiers run so far, in order
    producer,   \* parse_xml_report: the tier whose result was returned (0: none)
    node,       \* get_status_and_message: its argument, an element of the soup
    outcome,    \* get_status_and_message: its return value (status, message, details)
    msg,        \* categorize_message: its argument
    category,   \* categorize_message: its return value
    res_a,      \* compare: records of report A
    res_b,      \* compare: records of report B
    merged      \* compare: the rows of the merged frame, with their change label

vars == <<pc, soup, hashOrder, results, attempted, producer, node, outcome, msg, category,
          res_a, res_b, merged>>

----------------------------------------------------------------------------
(* Strings.  str.lower() and str.strip() on the vocabulary of the inputs.  *)

NoAttrs == [a \in {} |-> ""]

lower(s) ==
    CASE s = "FAILED" -> "failed"
      [] s = "Fail" -> "fail"
      [] s = "PASSED" -> "passed"
      [] s = "Skipped" -> "skipped"
      [] s = "testName" -> "testname"
      [] s = "className" -> "classname"
      [] s = "Error: x" -> "error: x"
      [] s = "Traceback" -> "traceback"
      [] s = "AssertionError" -> "assertionerror"
      [] s = "Fault" -> "fault"
      [] OTHER -> s

strip(s) ==
    CASE s = " failed " -> "failed"
      [] s = " t9 " -> "t9"
      [] s = " " -> ""
      [] s = "\n" -> ""
      [] OTHER -> s

\* The tokens of a text that are white space only.
Blank == {" ", "\n", ""}

RECURSIVE lstrip(_)
lstrip(t) == IF t # <<>> /\ Head(t) \in Blank THEN lstrip(Tail(t)) ELSE t

RECURSIVE rstrip(_)
rstrip(t) ==
    IF t # <<>> /\ t[Len(t)] \in Blank THEN rstrip(SubSeq(t, 1, Len(t) - 1)) ELSE t

\* str.strip() of a text.
stripText(t) == rstrip(lstrip(t))

\* str.lower() of a text.
lowerText(t) == [i \in 1..Len(t) |-> lower(t[i])]

\* str(value).strip() of an attribute value, as a text.
attrText(v) == IF strip(v) = "" THEN <<>> ELSE <<strip(v)>>

\* k in text: the substrings of a (lowercased) token that the heuristics look for.
tokenHas(w, k) ==
    CASE w = "error: x" -> k \in {"error", "error:"}
      [] w = "assertionerror" -> k \in {"assertion", "assertionerror", "error"}
      [] w = "traceback" -> k \in {"traceback"}
      [] w = "fault" -> k \in {"fault"}
      [] w = "failed" -> k \in {"failed"}
      [] OTHER -> FALSE

contains(t, k) == \E i \in 1..Len(t) : tokenHas(t[i], k)

\* text.splitlines()[0]
RECURSIVE firstLine(_)
firstLine(t) ==
    IF t = <<>> \/ Head(t) = "\n" THEN <<>> ELSE <<Head(t)>> \o firstLine(Tail(t))

----------------------------------------------------------------------------
(* The tree.                                                               *)

Indices(s) == [i \in 1..Len(s) |-> i]

\* tag.find_all(recursive=False): the immediate children, in document order.
children(s, i) == SelectSeq(Indices(s), LAMBDA j : s[j].parent = i)

RECURSIVE isAncestor(_, _, _)
isAncestor(s, i, j) ==
    /\ j > i
    /\ s[j].parent # 0
    /\ (s[j].parent = i \/ isAncestor(s, i, s[j].parent))

\* tag.find_all(): the descendants, in document order.
descendants(s, i) == SelectSeq(Indices(s), LAMBDA j : isAncestor(s, i, j))

\* tag.find(name): the first descendant with that tag name, 0 for None.
find(s, i, name) ==
    LET d == SelectSeq(descendants(s, i), LAMBDA j : s[j].tag = name)
    IN  IF d = <<>> THEN 0 ELSE d[1]

\* soup.find(name): the first element of the document with that tag name.
soupFind(s, name) ==
    LET d == SelectSeq(Indices(s), LAMBDA j : s[j].tag = name)
    IN  IF d = <<>> THEN 0 ELSE d[1]

\* The concatenation of a sequence of sequences, by halves.
RECURSIVE concatAll(_)
concatAll(qs) ==
    IF qs = <<>> THEN <<>>
    ELSE IF Len(qs) = 1 THEN qs[1]
    ELSE LET h == Len(qs) \div 2
         IN  concatAll(SubSeq(qs, 1, h)) \o concatAll(SubSeq(qs, h + 1, Len(qs)))

concatText(s, idx) == concatAll([k \in 1..Len(idx) |-> s[idx[k]].text])

\* tag.text: the text of the element and of all its descendants.
text(s, i) == s[i].text \o concatText(s, descendants(s, i))

has_attr(s, i, a) == a \in DOMAIN s[i].attrs

\* tag.get(a): the value, "" standing for None (both are falsy).
get(s, i, a) == IF has_attr(s, i, a) THEN s[i].attrs[a] ELSE ""

\* a or b or ...: the first truthy value of a sequence of attribute values.
RECURSIVE firstTruthy(_)
firstTruthy(vs) ==
    IF vs = <<>> THEN ""
    ELSE IF Head(vs) # "" THEN Head(vs) ELSE firstTruthy(Tail(vs))

getAny(s, i, names) == firstTruthy([k \in 1..Len(names) |-> get(s, i, names[k])])

----------------------------------------------------------------------------
(* Heuristics for test tag names.                                          *)

TEST_TAG_HINTS ==
    {"testcase", "test-case", "test", "testresult", "test-step", "unittestresult"}

FAILURE_CHILD_TAGS ==
    {"failure", "error", "failed", "failuremessage", "reason", "failure-message"}

\* re.search(r"(test|case|result|unittest|test-case)", name) on the tag names used.
looksLikeTest(name) ==
    name \in {"testcase", "test-case", "test", "testresult", "test-step",
              "unittestresult", "testsuite", "case", "result", "mytest"}

is_test_tag(tag_name) ==
    IF tag_name = "" THEN FALSE
    ELSE lower(tag_name) \in TEST_TAG_HINTS \/ looksLikeTest(lower(tag_name))

firstAttr(s, i, names) ==
    LET p == SelectSeq(names, LAMBDA a : has_attr(s, i, a))
    IN  IF p = <<>> THEN "" ELSE p[1]

extract_text(s, i) ==
    LET a == firstAttr(s, i, <<"message", "reason", "text", "failureMessage",
                               "failure-message">>)
    IN  IF a # "" THEN attrText(get(s, i, a)) ELSE stripText(text(s, i))

\* a or b on texts: the empty text is falsy.
orText(a, b) == IF a # <<>> THEN a ELSE b

FailWords == {"failed", "fail", "error", "failure", "failed_with_error"}
PassWords == {"passed", "pass", "ok", "success"}
SkipWords == {"skipped", "ignored"}

\* Rule 1 asked after rule 2: a failure child hides the status attributes.
RECURSIVE statusByAttrAfterChildren(_, _, _)
statusByAttrAfterChildren(s, i, names) ==
    IF names = <<>> \/ \E j \in 1..Len(s) : s[j].parent = i /\ s[j].tag \in FAILURE_CHILD_TAGS
    THEN <<>>
    ELSE LET a == Head(names)
             val == lower(strip(get(s, i, a)))
         IN  IF has_attr(s, i, a) /\ val \in FailWords
                 THEN <<"FAIL", extract_text(s, i), stripText(text(s, i))>>
             ELSE IF has_attr(s, i, a) /\ val \in PassWords
                 THEN <<"PASS", <<>>, <<>>>>
             ELSE IF has_attr(s, i, a) /\ val \in SkipWords
                 THEN <<"SKIPPED", <<>>, <<>>>>
             ELSE statusByAttrAfterChildren(s, i, Tail(names))

\* Rule 1: the loop over ("result", "outcome", "status"); <<>> when no attribute decides.
RECURSIVE statusByAttr(_, _, _)
statusByAttr(s, i, names) ==
    IF names = <<>> THEN <<>>
    ELSE LET a == Head(names)
             val == lower(strip(get(s, i, a)))
         IN  IF has_attr(s, i, a) /\ val \in FailWords
                 THEN <<"FAIL", extract_text(s, i), stripText(text(s, i))>>
             ELSE IF has_attr(s, i, a) /\ val \in PassWords
                 THEN <<"PASS", <<>>, <<>>>>
             ELSE IF has_attr(s, i, a) /\ val \in SkipWords
                 THEN <<"SKIPPED", <<>>, <<>>>>
             ELSE statusByAttr(s, i, Tail(names))

\* Rule 2: the first immediate child with a failure tag, 0 when there is none.
failureChild(s, i) ==
    LET c == SelectSeq(children(s, i), LAMBDA j : lower(s[j].tag) \in FAILURE_CHILD_TAGS)
    IN  IF c = <<>> THEN 0 ELSE c[1]

\* Rule 3: for tagname in FAILURE_CHILD_TAGS, in the order the set iterates.
failureDescendant(s, i, order) ==
    LET hit == SelectSeq(order, LAMBDA t : find(s, i, t) # 0)
    IN  IF hit = <<>> THEN 0 ELSE find(s, i, hit[1])

fromFailureNode(s, i, f) ==
    <<"FAIL", stripText(orText(extract_text(s, f), extract_text(s, i))),
              stripText(orText(text(s, f), text(s, i)))>>

\* Rules 2 to 6: what get_status_and_message returns once its first loop has
\* ended without a return.
afterRule1(s, i, order) ==
    LET c  == failureChild(s, i)
        d  == failureDescendant(s, i, order)
        a  == firstAttr(s, i, <<"message", "reason", "failure">>)
        txt == lowerText(text(s, i))
    IN  IF c # 0 THEN fromFailureNode(s, i, c)
        ELSE IF d # 0 THEN fromFailureNode(s, i, d)
        ELSE IF a # "" THEN <<"FAIL", attrText(get(s, i, a)), stripText(text(s, i))>>
        ELSE IF contains(txt, "traceback") \/ contains(txt, "assertionerror")
                \/ contains(txt, "error:")
             THEN <<"FAIL", stripText(firstLine(txt)), stripText(txt)>>
        ELSE <<"PASS", <<>>, <<>>>>

get_status_and_message(s, i, order) ==
    LET r1 == statusByAttr(s, i, <<"result", "outcome", "status">>)
    IN  IF r1 # <<>> THEN r1 ELSE afterRule1(s, i, order)

----------------------------------------------------------------------------
(* Node Classifier and record construction.                                *)

\* "".join of the tokens of a text: the text as one string.
RECURSIVE join(_)
join(t) == IF t = <<>> THEN "" ELSE Head(t) \o join(Tail(t))

\* The test of the loop body of find_test_nodes for one tag.
isCandidate(s, i) ==
    LET name_attr == getAny(s, i, <<"name", "testName", "testname", "method", "test">>)
    IN  \/ name_attr # "" /\ (is_test_tag(s[i].tag) \/ looksLikeTest(lower(s[i].tag)))
        \/ has_attr(s, i, "outcome") /\ has_attr(s, i, "testname")
        \/ has_attr(s, i, "result")
             /\ (has_attr(s, i, "name") \/ has_attr(s, i, "testname"))

\* Deduplicate preserving order: the key holds id(c), so a node is dropped exactly
\* when the same node stands earlier in the list.
uniq(c) ==
    LET keep == SelectSeq(Indices(c), LAMBDA k : \A m \in 1..(k - 1) : c[m] # c[k])
    IN  [k \in 1..Len(keep) |-> c[keep[k]]]

find_test_nodes(s) ==
    uniq(SelectSeq(Indices(s), LAMBDA i : s[i].tag = "testcase")
           \o SelectSeq(Indices(s), LAMBDA i : isCandidate(s, i)))

\* str(node.get("class")): lxml's tree builder keeps class as a list of values.
classAttr(s, i) == IF get(s, i, "class") = "" THEN "" ELSE "['" \o get(s, i, "class") \o "']"

get_test_info(s, i, order) ==
    LET name == getAny(s, i, <<"name", "testName", "testname", "method", "id">>)
        classname == firstTruthy(<<get(s, i, "classname"), classAttr(s, i),
                                   get(s, i, "className")>>)
        time == getAny(s, i, <<"time", "duration">>)
        sm == get_status_and_message(s, i, order)
        name_tag == find(s, i, "name")
        name2 == IF name = "" /\ name_tag # 0 /\ stripText(text(s, name_tag)) # <<>>
                 THEN join(stripText(text(s, name_tag))) ELSE name
    IN  [testcase |-> strip(name2), classname |-> strip(classname), time |-> strip(time),
         status |-> sm[1], message |-> stripText(sm[2]), details |-> stripText(sm[3])]

----------------------------------------------------------------------------
(* Tier 3: repeated siblings under the first tag.                          *)

\* Counter(names): the names that occur at least twice among the given elements.
repeatedTags(s, child_tags) ==
    {s[child_tags[k]].tag : k \in {k \in 1..Len(child_tags) :
        \E m \in 1..Len(child_tags) : m # k /\ s[child_tags[m]].tag = s[child_tags[k]].tag}}

\* " ".join of the stripped, non-blank texts of the immediate children.
RECURSIVE joinWithSpace(_)
joinWithSpace(ts) ==
    IF ts = <<>> THEN <<>>
    ELSE IF Len(ts) = 1 THEN ts[1]
    ELSE LET h == Len(ts) \div 2
         IN  joinWithSpace(SubSeq(ts, 1, h)) \o <<" ">>
                 \o joinWithSpace(SubSeq(ts, h + 1, Len(ts)))

joinChildTexts(s, cs) ==
    joinWithSpace(SelectSeq([k \in 1..Len(cs) |-> stripText(text(s, cs[k]))],
                            LAMBDA t : t # <<>>))

NameCandidates == <<"name", "id", "title", "testName", "testname">>

\* The name loop of tier 3: the child element is looked at before the attribute.
RECURSIVE siblingName(_, _, _)
siblingName(s, i, cands) ==
    IF cands = <<>> THEN ""
    ELSE LET tag == find(s, i, Head(cands))
         IN  IF tag # 0 /\ stripText(text(s, tag)) # <<>>
                 THEN join(stripText(text(s, tag)))
             ELSE IF has_attr(s, i, Head(cands)) THEN strip(get(s, i, Head(cands)))
             ELSE siblingName(s, i, Tail(cands))

attrSignalsFailure(s, i) ==
    \E a \in {"result", "outcome", "status"} :
        has_attr(s, i, a) /\ lower(strip(get(s, i, a))) \in {"fail", "failed", "error"}

siblingRecord(s, i, idx) ==
    LET n1 == siblingName(s, i, NameCandidates)
        name == IF n1 # "" THEN n1
                ELSE firstTruthy(<<get(s, i, "name"), get(s, i, "id"),
                                   s[i].tag \o "-" \o ToString(idx + 1)>>)
        c1 == joinChildTexts(s, children(s, i))
        combined_text == IF c1 # <<>> THEN c1 ELSE stripText(text(s, i))
        low == lowerText(combined_text)
        status == IF attrSignalsFailure(s, i)
                     \/ \E k \in {"error", "failed", "exception", "traceback", "assertion"} :
                            contains(low, k)
                  THEN "FAIL" ELSE "PASS"
    IN  [testcase |-> name, classname |-> s[i].tag, time |-> "", status |-> status,
         message |-> combined_text, details |-> combined_text]

\* for idx, child in enumerate(child_tags): one record per child whose tag is kept.
siblingRecords(s, child_tags, repeated) ==
    LET keep == SelectSeq(Indices(child_tags), LAMBDA k : s[child_tags[k]].tag \in repeated)
    IN  [j \in 1..Len(keep) |-> siblingRecord(s, child_tags[keep[j]], keep[j] - 1)]

infer_tests_from_repeated_siblings(s) ==
    IF s = <<>> THEN <<>>
    ELSE LET child_tags == children(s, 1)
             rep == repeatedTags(s, child_tags)
             repeated == IF rep # {} THEN rep
                         ELSE IF Len(child_tags) >= 2
                              THEN {s[child_tags[k]].tag : k \in 1..Len(child_tags)}
                              ELSE {}
         IN  siblingRecords(s, child_tags, repeated)

----------------------------------------------------------------------------
(* Tier 4: aggressive inference.                                           *)

\* for i, t in enumerate(all_tags[:100])
MAX_FLAT == 100

\* The name loop of node_to_test: the attribute is looked at before the child
\* element, and a blank attribute value does not end the loop.
RECURSIVE nodeName(_, _, _, _)
nodeName(s, i, cands, name) ==
    IF cands = <<>> THEN name
    ELSE LET n1 == IF has_attr(s, i, Head(cands)) THEN strip(get(s, i, Head(cands)))
                   ELSE name
             child == find(s, i, Head(cands))
         IN  IF has_attr(s, i, Head(cands)) /\ n1 # "" THEN n1
             ELSE IF child # 0 /\ stripText(text(s, child)) # <<>>
                 THEN join(stripText(text(s, child)))
             ELSE nodeName(s, i, Tail(cands), n1)

node_to_test(s, i, idx) ==
    LET n1 == nodeName(s, i, NameCandidates, "")
        name == IF n1 # "" THEN n1
                ELSE firstTruthy(<<get(s, i, "name"), get(s, i, "id"),
                                   s[i].tag \o "-" \o ToString(idx + 1)>>)
        c1 == stripText(joinChildTexts(s, children(s, i)))
        combined_text == IF c1 # <<>> THEN c1 ELSE stripText(text(s, i))
        low == lowerText(combined_text)
        status == IF attrSignalsFailure(s, i)
                     \/ \E k \in {"error", "failed", "exception", "traceback",
                                  "assertion", "fault"} : contains(low, k)
                  THEN "FAIL" ELSE "PASS"
    IN  [testcase |-> name, classname |-> s[i].tag,
         time |-> getAny(s, i, <<"time", "duration">>), status |-> status,
         message |-> combined_text, details |-> combined_text]

\* Path 1: idx counts the repeated children and is incremented before the call,
\* so the first of them is converted with idx = 1.
repeatedPath(s, child_tags, repeated) ==
    LET keep == SelectSeq(Indices(child_tags), LAMBDA k : s[child_tags[k]].tag \in repeated)
    IN  [idx \in 1..Len(keep) |-> node_to_test(s, child_tags[keep[idx]], idx)]

\* for i, t in enumerate(elems): results.append(node_to_test(t, i))
enumeratePath(s, elems) == [k \in 1..Len(elems) |-> node_to_test(s, elems[k], k - 1)]

\* grandchildren.extend(...) for every child of the first tag.
grandchildrenOf(s, cs) == concatAll([k \in 1..Len(cs) |-> children(s, cs[k])])

\* all_tags[:100]
firstN(q, n) == SubSeq(q, 1, IF Len(q) < n THEN Len(q) ELSE n)

\* The path of tier 4 that produces its result: 0 none, 1 repeated siblings,
\* 2 all children, 3 grandchildren, 4 flat enumeration.
aggressivePath(s) ==
    IF s = <<>> THEN 0
    ELSE LET child_tags == children(s, 1)
         IN  IF repeatedTags(s, child_tags) # {} THEN 1
             ELSE IF Len(child_tags) >= 2 THEN 2
             ELSE IF grandchildrenOf(s, child_tags) # <<>> THEN 3
             ELSE 4

\* Tier 4 without its final fallback: nothing when the first tag has neither
\* children nor grandchildren to enumerate.
infer_tests_without_fallback(s) ==
    LET child_tags == children(s, 1)
        path == aggressivePath(s)
    IN  CASE path = 1 -> repeatedPath(s, child_tags, repeatedTags(s, child_tags))
          [] path = 2 -> enumeratePath(s, child_tags)
          [] path = 3 -> enumeratePath(s, grandchildrenOf(s, child_tags))
          [] OTHER -> <<>>

infer_tests_more_aggressive(s) ==
    LET child_tags == children(s, 1)
        path == aggressivePath(s)
    IN  CASE path = 0 -> <<>>
          [] path = 1 -> repeatedPath(s, child_tags, repeatedTags(s, child_tags))
          [] path = 2 -> enumeratePath(s, child_tags)
          [] path = 3 -> enumeratePath(s, grandchildrenOf(s, child_tags))
          [] OTHER -> enumeratePath(s, firstN(Indices(s), MAX_FLAT))

----------------------------------------------------------------------------
(* The tolerant parser: BeautifulSoup(content, "lxml").  lxml's HTML parser *)
(* lowercases tag and attribute names and wraps the elements of the        *)
(* document in html and body; leading elements that belong to an HTML head *)
(* (title) are put in a head element before the body; a body element that  *)
(* is the whole document is the body of the wrapper.                       *)

N(tag, parent, attrs, txt) == [tag |-> tag, parent |-> parent, attrs |-> attrs, text |-> txt]

HeadTags == {"title"}

lowerAttrs(f) ==
    [a \in {lower(k) : k \in DOMAIN f} |-> f[CHOOSE k \in DOMAIN f : lower(k) = a]]

\* The number of leading top-level elements of the document that go to the head.
RECURSIVE headLen(_, _)
headLen(doc, k) ==
    IF k < Len(doc) /\ doc[k + 1].parent = 0 /\ lower(doc[k + 1].tag) \in HeadTags
    THEN headLen(doc, k + 1) ELSE k

Parse(doc) ==
    LET h == headLen(doc, 0)
        wrap == IF h = 0
                THEN <<N("html", 0, NoAttrs, <<>>), N("body", 1, NoAttrs, <<>>)>>
                ELSE <<N("html", 0, NoAttrs, <<>>), N("head", 1, NoAttrs, <<>>)>>
        body == IF h = 0 THEN 2 ELSE h + 3
        at(j) == IF h = 0 THEN j + 2 ELSE IF j <= h THEN j + 2 ELSE j + 3
        el(j) == N(lower(doc[j].tag),
                   IF doc[j].parent = 0 THEN (IF j <= h THEN 2 ELSE body)
                   ELSE at(doc[j].parent),
                   lowerAttrs(doc[j].attrs), doc[j].text)
    IN  IF doc = <<>> THEN <<>>
        ELSE IF doc = <<N("body", 0, NoAttrs, <<>>)>> THEN wrap
        ELSE wrap \o [j \in 1..h |-> el(j)]
                  \o (IF h > 0 /\ h < Len(doc) THEN <<N("body", 1, NoAttrs, <<>>)>> ELSE <<>>)
                  \o [j \in 1..(Len(doc) - h) |-> el(j + h)]

----------------------------------------------------------------------------
(* The documents checked.  A document is a sequence of fragments (an       *)
(* element with its subtree), possibly inside one container element.       *)

MaxFrags == 2

Frags == {
    <<N("testcase", 0, "name" :> "t1", <<>>)>>,
    <<N("testcase", 0, ("name" :> "t2") @@ ("classname" :> "c"), <<>>),
      N("failure", 1, "message" :> "m1", <<"boom">>)>>,
    <<N("testcase", 0, NoAttrs, <<>>)>>,
    <<N("test", 0, NoAttrs, <<>>)>>,
    <<N("case", 0, "outcome" :> "fail", <<>>)>>,
    <<N("case", 0, NoAttrs, <<>>)>>,
    <<N("item", 0, NoAttrs, <<"Error: x">>)>>,
    <<N("item", 0, ("result" :> "FAILED") @@ ("name" :> "n1"), <<>>)>>,
    <<N("step", 0, ("status" :> "failed") @@ ("name" :> "n2"), <<>>)>>,
    <<N("group", 0, NoAttrs, <<>>), N("testcase", 1, "name" :> "t3", <<>>)>>,
    <<N("test", 0, "testName" :> "t4", <<>>),
      N("wrap", 1, NoAttrs, <<>>), N("error", 2, NoAttrs, <<"Traceback">>),
      N("failure", 2, NoAttrs, <<"boom">>)>>,
    <<N("testsuite", 0, "name" :> "s2", <<>>), N("testcase", 1, "name" :> "t5", <<>>)>>
}

Containers == {
    <<>>,
    <<N("root", 0, NoAttrs, <<>>)>>,
    <<N("testsuite", 0, NoAttrs, <<>>)>>,
    <<N("testsuite", 0, "name" :> "s1", <<>>)>>
}

\* The fragments one after the other below the element top (0: at top level).
place(frags, top) ==
    LET offset(q) == top + Len(concatAll(SubSeq(frags, 1, q - 1)))
        shifted(q) == [k \in 1..Len(frags[q]) |->
                          [frags[q][k] EXCEPT !.parent =
                              IF frags[q][k].parent = 0 THEN top
                              ELSE frags[q][k].parent + offset(q)]]
    IN  concatAll([q \in 1..Len(frags) |-> shifted(q)])

Assemble(container, frags) == container \o place(frags, Len(container))

Repeat(f, n) == [k \in 1..n |-> f]

FragSeqs == UNION {[1..n -> Frags] : n \in 0..MaxFrags}

CaseFail == <<N("case", 0, "outcome" :> "fail", <<>>)>>
CasePlain == <<N("case", 0, NoAttrs, <<>>)>>
Item == <<N("item", 0, NoAttrs, <<>>)>>
Title == <<N("title", 0, NoAttrs, <<"rep">>)>>
Body == <<N("body", 0, NoAttrs, <<>>)>>

\* Five sibling elements named case, three with outcome="fail" and two without.
FiveCases == <<CaseFail, CasePlain, CaseFail, CaseFail, CasePlain>>

Docs ==
    {Assemble(c, fs) : c \in Containers, fs \in FragSeqs}
    \cup {Assemble(<<>>, <<Title>> \o <<f>>) : f \in Frags \cup {Item}}
    \cup {Assemble(<<>>, <<Body>>)}
    \cup {Assemble(c, FiveCases) : c \in {<<>>, <<N("root", 0, NoAttrs, <<>>)>>}}
    \cup {Assemble(c, Repeat(Item, n)) :
            c \in {<<>>, <<N("root", 0, NoAttrs, <<>>)>>}, n \in {1, MAX_FLAT, MAX_FLAT + 1}}

\* The orders in which the set FAILURE_CHILD_TAGS can iterate, up to the positions
\* of the tags no document uses.
HashOrders == {
    <<"failure", "error", "failed", "failuremessage", "reason", "failure-message">>,
    <<"error", "failure", "failed", "failuremessage", "reason", "failure-message">>
}

----------------------------------------------------------------------------
(* parse_xml_report: the cascade.                                          *)

tier1(s, order) ==
    LET nodes == find_test_nodes(s)
    IN  [k \in 1..Len(nodes) |-> get_test_info(s, nodes[k], order)]

tier2(s, order) ==
    LET testsuite == soupFind(s, "testsuite")
        tcs == IF testsuite = 0 THEN <<>>
               ELSE SelectSeq(children(s, testsuite), LAMBDA j : is_test_tag(s[j].tag))
    IN  [k \in 1..Len(tcs) |-> get_test_info(s, tcs[k], order)]

InitExtract ==
    /\ pc = "tier1"
    /\ soup \in {Parse(d) : d \in Docs}
    /\ hashOrder \in HashOrders
    /\ results = <<>>
    /\ attempted = <<>>
    /\ producer = 0
    /\ node = 0 /\ outcome = <<>>
    /\ msg = <<>> /\ category = "" /\ res_a = <<>> /\ res_b = <<>> /\ merged = <<>>

\* Tier without its early return: the cascade goes on after a non-empty result.
TierFallsThrough(k, now, result, next) ==
    /\ pc = now
    /\ attempted' = Append(attempted, k)
    /\ results' = result
    /\ producer' = IF result # <<>> THEN k ELSE 0
    /\ pc' = next
    /\ UNCHANGED <<soup, hashOrder, node, outcome, msg, category, res_a, res_b, merged>>

Tier(k, now, result, next) ==
    /\ pc = now
    /\ attempted' = Append(attempted, k)
    /\ results' = result
    /\ producer' = IF result # <<>> THEN k ELSE 0
    /\ pc' = IF result # <<>> THEN "done" ELSE next
    /\ UNCHANGED <<soup, hashOrder, node, outcome, msg, category, res_a, res_b, merged>>

Tier1 == Tier(1, "tier1", tier1(soup, hashOrder), "tier2")
Tier2 == Tier(2, "tier2", tier2(soup, hashOrder), "tier3")
Tier3 == Tier(3, "tier3", infer_tests_from_repeated_siblings(soup), "tier4")
Tier4 == Tier(4, "tier4", infer_tests_more_aggressive(soup), "done")

parse_xml_report == Tier1 \/ Tier2 \/ Tier3 \/ Tier4

Next == parse_xml_report

Spec == InitExtract /\ [][Next]_vars

----------------------------------------------------------------------------
(* Claims about the cascade.                                               *)

tierResults ==
    <<tier1(soup, hashOrder), tier2(soup, hashOrder),
      infer_tests_from_repeated_siblings(soup), infer_tests_more_aggressive(soup)>>

\* C1: the tiers are attempted in the order 1, 2, 3, 4; the list returned is the
\* result of the first tier whose result is not empty, and no tier after that one
\* is attempted (all four are attempted when every result is empty).
C1_FirstNonEmptyTier ==
    /\ \E n \in 0..4 : attempted = [k \in 1..n |-> k]
    /\ pc = "done" =>
         LET hit == {k \in 1..4 : tierResults[k] # <<>>}
         IN  IF hit = {}
             THEN results = <<>> /\ producer = 0 /\ attempted = <<1, 2, 3, 4>>
             ELSE LET first == CHOOSE k \in hit : \A m \in hit : k <= m
                  IN  /\ results = tierResults[first]
                      /\ producer = first
                      /\ attempted = [k \in 1..first |-> k]

\* C1 witness: tier 2 produced the result and tiers 3 and 4, which would have
\* returned something, were not attempted.
C1_Witness ==
    /\ pc = "done" /\ producer = 2 /\ attempted = <<1, 2>>
    /\ infer_tests_more_aggressive(soup) # <<>>

testcaseNodes(s) == SelectSeq(Indices(s), LAMBDA i : s[i].tag = "testcase")

\* C2: for a tree that contains testcase elements the list returned holds exactly
\* one record per testcase element, in document order, and no other record.
C2_OneRecordPerTestcase ==
    (pc = "done" /\ testcaseNodes(soup) # <<>>) =>
        results = [k \in 1..Len(testcaseNodes(soup)) |->
                      get_test_info(soup, testcaseNodes(soup)[k], hashOrder)]

\* The topmost element of the document as written: the first element below the
\* wrappers the parser adds (0 when there is none).
documentRoot(s) ==
    LET b == soupFind(s, "body")
    IN  IF b = 0 \/ children(s, b) = <<>> THEN 0 ELSE children(s, b)[1]

\* C4: when tiers 1 and 2 find nothing and the topmost element of the document has
\* at least two immediate children sharing a tag name, the list returned holds one
\* record per immediate child whose tag name occurs at least twice, in document
\* order, and tier 3 produced it; five case siblings, three of them with
\* outcome="fail", give 5 records, 3 FAIL and 2 PASS.
C4_RepeatedSiblingsByTier3 ==
    LET top == documentRoot(soup)
        kids == children(soup, top)
        rep == repeatedTags(soup, kids)
        kept == SelectSeq(kids, LAMBDA j : soup[j].tag \in rep)
    IN  (/\ pc = "done" /\ top # 0 /\ rep # {}
         /\ tier1(soup, hashOrder) = <<>> /\ tier2(soup, hashOrder) = <<>>)
        => /\ producer = 3
           /\ Len(results) = Len(kept)
           /\ \A k \in 1..Len(kept) : results[k].classname = soup[kept[k]].tag
           /\ (/\ Len(kids) = 5
               /\ \A k \in 1..5 : soup[kids[k]].tag = "case"
               /\ Cardinality({k \in 1..5 : soup[kids[k]].attrs = ("outcome" :> "fail")}) = 3
               /\ Cardinality({k \in 1..5 : soup[kids[k]].attrs = NoAttrs}) = 2)
               => /\ Cardinality({k \in 1..Len(results) : results[k].status = "FAIL"}) = 3
                  /\ Cardinality({k \in 1..Len(results) : results[k].status = "PASS"}) = 2

\* C5: whenever tier 4 produces the result, the list returned holds at most
\* MAX_FLAT records.
C5_Tier4AtMostCap ==
    (pc = "done" /\ producer = 4) => Len(results) <= MAX_FLAT

\* The fields of a record.
RecordFields == {"testcase", "classname", "time", "status", "message", "details"}

\* The four evidence tiers of the Node Classifier as the specification lists them.
evidence(s, i) ==
    LET known == lower(s[i].tag) \in TEST_TAG_HINTS
        loose == looksLikeTest(lower(s[i].tag))
        named == \E a \in {"name", "testName", "testname", "method", "id"} : has_attr(s, i, a)
        outcomeLike == \E a \in {"outcome", "result", "status"} : has_attr(s, i, a)
    IN  \/ known
        \/ loose
        \/ named /\ (known \/ loose)
        \/ outcomeLike /\ (has_attr(s, i, "name") \/ has_attr(s, i, "testname"))

\* C14: once find_test_nodes has run, an element is among the nodes it returns if
\* and only if one of the four evidence tiers holds for it; in particular an
\* element with a tag of the known vocabulary and no attribute is returned, and
\* so is an element with a generic tag that has a status and a name attribute.
C14_CandidateIffEvidence ==
    pc # "tier1" =>
        LET nodes == find_test_nodes(soup)
            found == {nodes[k] : k \in 1..Len(nodes)}
        IN  \A i \in 1..Len(soup) : i \in found <=> evidence(soup, i)

recordsOnly(q) == \A j \in 1..Len(q) : DOMAIN q[j] = RecordFields

\* C11: on every tree each tier of parse_xml_report yields a list of records (no
\* tier fails), and the list returned is empty exactly when the parsed tree has no
\* element: the empty input gives no record, and on a tree with at least one
\* element the aggressive fallback returns at least one record.  (The tier
\* results depend on the tree only, so they are looked at once, on entry.)
C11_EmptyIffNoElement ==
    /\ pc = "tier1" =>
          /\ recordsOnly(tier1(soup, hashOrder)) /\ recordsOnly(tier2(soup, hashOrder))
          /\ recordsOnly(infer_tests_from_repeated_siblings(soup))
          /\ recordsOnly(infer_tests_more_aggressive(soup))
          /\ soup # <<>> => infer_tests_more_aggressive(soup) # <<>>
    /\ pc = "done" => (results = <<>> <=> soup = <<>>)

\* C11 witness: on a tree whose first tag has a single childless child every
\* earlier tier and every earlier path of tier 4 found nothing, and the flat
\* enumeration of tier 4 returned records.
C11_Witness ==
    /\ pc = "done" /\ soup # <<>>
    /\ attempted = <<1, 2, 3, 4>> /\ producer = 4
    /\ aggressivePath(soup) = 4
    /\ results # <<>>

----------------------------------------------------------------------------
(* get_status_and_message on one element: the Outcome Extractor.           *)

Absent == "-"

opt(k, v) == IF v = Absent THEN NoAttrs ELSE k :> v

ResultValues == {Absent, "failed", "passed", "bogus", "failed_with_error"}
OutcomeValues == {Absent, "error", "ok", " failed "}
StatusValues == {Absent, "FAILED", "pass", "skipped", "skip"}
MessageValues == {Absent, "m1"}
TextValues == {<<>>, <<"Traceback">>}

\* The subtrees below the element: nothing, a failure child, a child with a
\* passing-looking tag, a nested error, a nested error before a nested failure.
ChildValues == {
    <<>>,
    <<N("failure", 1, "message" :> "m2", <<"boom">>)>>,
    <<N("passed", 1, NoAttrs, <<"fine">>)>>,
    <<N("wrap", 1, NoAttrs, <<>>), N("error", 2, NoAttrs, <<"boom">>)>>,
    <<N("wrap", 1, NoAttrs, <<>>), N("error", 2, NoAttrs, <<"Traceback">>),
      N("failure", 2, NoAttrs, <<"boom">>)>>
}

TestNodes ==
    {<<N("testcase", 0, opt("result", r) @@ opt("outcome", o) @@ opt("status", st)
                          @@ opt("message", m), t)>> \o c :
        r \in ResultValues, o \in OutcomeValues, st \in StatusValues,
        m \in MessageValues, t \in TextValues, c \in ChildValues}

InitOutcome ==
    /\ pc = "extract"
    /\ soup \in {Parse(d) : d \in TestNodes}
    /\ node = 3
    /\ hashOrder \in HashOrders
    /\ outcome = <<>>
    /\ results = <<>> /\ attempted = <<>> /\ producer = 0
    /\ msg = <<>> /\ category = "" /\ res_a = <<>> /\ res_b = <<>> /\ merged = <<>>

Extract ==
    /\ pc = "extract"
    /\ outcome' = get_status_and_message(soup, node, hashOrder)
    /\ pc' = "extracted"
    /\ UNCHANGED <<soup, node, hashOrder, results, attempted, producer, msg, category,
                   res_a, res_b, merged>>

SpecOutcome == InitOutcome /\ [][Extract]_vars

\* The vocabularies of the specification.
FailingVocabulary == {"failed", "fail", "error", "failure"}
PassingVocabulary == {"passed", "pass", "ok", "success"}

StatusAttrs == <<"result", "outcome", "status">>

attrValue(a) == lower(strip(get(soup, node, a)))

\* C3 as stated: an element with a result/outcome/status attribute of the failing
\* vocabulary gives FAIL, one with such an attribute of the passing vocabulary gives
\* PASS with empty message and details, whatever its children, attributes and text.
C3_AnyStatusAttrDecides ==
    pc = "extracted" =>
        /\ (\E k \in 1..3 : has_attr(soup, node, StatusAttrs[k])
                /\ attrValue(StatusAttrs[k]) \in FailingVocabulary)
             => outcome[1] = "FAIL"
        /\ (\E k \in 1..3 : has_attr(soup, node, StatusAttrs[k])
                /\ attrValue(StatusAttrs[k]) \in PassingVocabulary)
             => outcome = <<"PASS", <<>>, <<>>>>

\* The values rule 1 recognises.
Recognised == FailWords \cup PassWords \cup SkipWords

\* The attributes of the element, among result, outcome, status, with a recognised value.
deciding == {k \in 1..3 : has_attr(soup, node, StatusAttrs[k])
                            /\ attrValue(StatusAttrs[k]) \in Recognised}

\* C3 amended: the first attribute among result, outcome, status (in this order)
\* with a recognised value decides alone: a failing value gives FAIL, a passing
\* value gives PASS with empty message and details, whatever the later status
\* attributes, the children, the message-like attributes and the text are.
C3_FirstStatusAttrDecides ==
    (pc = "extracted" /\ deciding # {}) =>
        LET d == CHOOSE x \in deciding : \A m \in deciding : x <= m
        IN  /\ attrValue(StatusAttrs[d]) \in FailingVocabulary => outcome[1] = "FAIL"
            /\ attrValue(StatusAttrs[d]) \in PassingVocabulary
                 => outcome = <<"PASS", <<>>, <<>>>>

\* C3 witness: an element whose status attribute is failing (after a result
\* attribute with an unrecognised value), with a passing-looking child and a
\* message attribute, has been extracted as FAIL.
C3_Witness ==
    /\ pc = "extracted"
    /\ get(soup, node, "result") = "bogus"
    /\ get(soup, node, "status") = "FAILED"
    /\ \E j \in 1..Len(soup) : soup[j].parent = node /\ soup[j].tag = "passed"
    /\ has_attr(soup, node, "message")
    /\ outcome[1] = "FAIL"

SkippingVocabulary == {"skipped", "skip", "ignored"}

\* The attributes of the element, among result, outcome, status, whose value is in
\* one of the three vocabularies of the specification.
inVocabulary ==
    {k \in 1..3 : has_attr(soup, node, StatusAttrs[k])
                    /\ attrValue(StatusAttrs[k]) \in FailingVocabulary \cup PassingVocabulary
                                                       \cup SkippingVocabulary}

\* C12: the value of the element's (first) result/outcome/status attribute that
\* is in a vocabulary decides: failed, fail, error, failure give FAIL; passed,
\* pass, ok, success give PASS with empty message and details; skipped, skip,
\* ignored give SKIPPED with empty message and details; when no such attribute
\* has a value of the three vocabularies the outcome is that of rules 2 to 6.
C12_Rule1Vocabulary ==
    pc = "extracted" =>
        IF inVocabulary = {} THEN outcome = afterRule1(soup, node, hashOrder)
        ELSE LET d == CHOOSE x \in inVocabulary : \A m \in inVocabulary : x <= m
                 v == attrValue(StatusAttrs[d])
             IN  /\ v \in FailingVocabulary => outcome[1] = "FAIL"
                 /\ v \in PassingVocabulary => outcome = <<"PASS", <<>>, <<>>>>
                 /\ v \in SkippingVocabulary => outcome = <<"SKIPPED", <<>>, <<>>>>

\* The descendants of the element whose tag is in the failure vocabulary, in
\* document order.
failureDescendants ==
    SelectSeq(descendants(soup, node), LAMBDA j : soup[j].tag \in FAILURE_CHILD_TAGS)

\* C13: for an element that rule 1 does not decide and that has no failure child
\* but has descendants with a tag of the failure vocabulary, the outcome is FAIL
\* with the message and details of the first such descendant in document order,
\* whatever the tag names are and in whatever order the vocabulary is iterated.
C13_FirstDescendantInDocumentOrder ==
    (/\ pc = "extracted"
     /\ statusByAttr(soup, node, StatusAttrs) = <<>>
     /\ failureChild(soup, node) = 0
     /\ failureDescendants # <<>>)
    => outcome = fromFailureNode(soup, node, failureDescendants[1])

----------------------------------------------------------------------------
(* The two conversions of an element to a record: the loop body of         *)
(* infer_tests_from_repeated_siblings (tier 3) and node_to_test (tier 4),  *)
(* applied to the same element at the same position.                       *)

MaxIdx == 2

NameValues == {Absent, "a", " "}
IdValues == {Absent, "x"}
SignalValues == {Absent, "failed", "ok"}
OwnTextValues == {<<>>, <<"fault">>, <<"fine">>}

\* The subtrees below the element: nothing, a name child, an id child, a child
\* whose text holds a failure token of both tiers, one whose text holds fault.
SubtreeValues == {
    <<>>,
    <<N("name", 1, NoAttrs, <<"b">>)>>,
    <<N("id", 1, NoAttrs, <<"y">>)>>,
    <<N("msg", 1, NoAttrs, <<"Traceback">>)>>,
    <<N("msg", 1, NoAttrs, <<"Fault">>)>>
}

Elements ==
    {<<N("item", 0, opt("name", n) @@ opt("id", i) @@ opt("status", st), t)>> \o c :
        n \in NameValues, i \in IdValues, st \in SignalValues,
        t \in OwnTextValues, c \in SubtreeValues}

InitConvert ==
    /\ pc = "convert"
    /\ soup \in {Parse(d) : d \in Elements}
    /\ node = 3
    /\ results = <<>>
    /\ hashOrder = <<>> /\ attempted = <<>> /\ producer = 0 /\ outcome = <<>>
    /\ msg = <<>> /\ category = "" /\ res_a = <<>> /\ res_b = <<>> /\ merged = <<>>

\* results holds the record of tier 3's conversion, then that of tier 4's.
Convert ==
    /\ pc = "convert"
    /\ \E idx \in 0..MaxIdx :
           results' = <<siblingRecord(soup, node, idx), node_to_test(soup, node, idx)>>
    /\ pc' = "converted"
    /\ UNCHANGED <<soup, node, hashOrder, attempted, producer, outcome, msg, category,
                   res_a, res_b, merged>>

SpecConvert == InitConvert /\ [][Convert]_vars

\* C15: for every element and every position, the testcase name (the generated
\* "<tag>-<index + 1>" included) and the status that tier 4's conversion computes
\* equal those tier 3's conversion computes for the same element and position.
C15_SameNameAndStatus ==
    pc = "converted" =>
        /\ results[2].testcase = results[1].testcase
        /\ results[2].status = results[1].status

----------------------------------------------------------------------------
(* categorize_message.  A text is a sequence of characters; a pattern is a  *)
(* sequence of atoms: a character, ANY for ".", STAR for ".*", WB for "\b". *)

CATEGORY_PATTERNS == <<
    [label |-> "Timeout", patterns |-> <<
         <<"WB", "t", "i", "m", "e", "o", "u", "t", "WB">>,
         <<"WB", "t", "i", "m", "e", "d", " ", "o", "u", "t", "WB">>,
         <<"t", "i", "m", "e", "o", "u", "t", "e", "r", "r", "o", "r">>>>],
    [label |-> "Element not found", patterns |-> <<
         <<"e", "l", "e", "m", "e", "n", "t", "n", "o", "t", "f", "o", "u", "n", "d">>,
         <<"e", "l", "e", "m", "e", "n", "t", " ", "n", "o", "t", " ", "f", "o", "u", "n", "d">>,
         <<"n", "o", " ", "s", "u", "c", "h", " ", "e", "l", "e", "m", "e", "n", "t">>,
         <<"n", "o", "e", "l", "e", "m", "e", "n", "t">>,
         <<"c", "o", "u", "l", "d", " ", "n", "o", "t", " ", "f", "i", "n", "d", " ", "e", "l", "e", "m", "e", "n", "t">>>>],
    [label |-> "Assertion", patterns |-> <<
         <<"a", "s", "s", "e", "r", "t", "i", "o", "n", "e", "r", "r", "o", "r">>,
         <<"WB", "a", "s", "s", "e", "r", "t", "WB">>,
         <<"e", "x", "p", "e", "c", "t", "e", "d", " ", "STAR", " ", "b", "u", "t">>,
         <<"a", "s", "s", "e", "r", "t", " ", "f", "a", "i", "l", "e", "d">>>>],
    [label |-> "Network/Connection", patterns |-> <<
         <<"c", "o", "n", "n", "e", "c", "t", "i", "o", "n", "e", "r", "r", "o", "r">>,
         <<"f", "a", "i", "l", "e", "d", " ", "t", "o", " ", "c", "o", "n", "n", "e", "c", "t">>,
         <<"c", "o", "n", "n", "e", "c", "t", "i", "o", "n", " ", "r", "e", "f", "u", "s", "e", "d">>,
         <<"s", "o", "c", "k", "e", "t", "ANY", "t", "i", "m", "e", "o", "u", "t">>,
         <<"c", "o", "n", "n", "e", "c", "t", "i", "o", "n", " ", "t", "i", "m", "e", "d", " ", "o", "u", "t">>>>],
    [label |-> "Database", patterns |-> <<
         <<"WB", "d", "b", "WB">>,
         <<"WB", "d", "a", "t", "a", "b", "a", "s", "e", "WB">>,
         <<"s", "q", "l", "e", "x", "c", "e", "p", "t", "i", "o", "n">>,
         <<"p", "s", "y", "c", "o", "p", "g", "2">>,
         <<"p", "o", "s", "t", "g", "r", "e", "s">>,
         <<"m", "y", "s", "q", "l">>,
         <<"s", "q", "l", "i", "t", "e">>>>],
    [label |-> "Auth/Authorization", patterns |-> <<
         <<"u", "n", "a", "u", "t", "h", "o", "r", "i", "z", "e", "d">>,
         <<"WB", "a", "u", "t", "h", "WB">>,
         <<"4", "0", "3">>,
         <<"4", "0", "1">>,
         <<"f", "o", "r", "b", "i", "d", "d", "e", "n">>>>],
    [label |-> "Timeout/Long Running", patterns |-> <<
         <<"l", "o", "n", "g", " ", "r", "u", "n", "n", "i", "n", "g">>,
         <<"WB", "s", "l", "o", "w", "WB">>,
         <<"r", "e", "s", "p", "o", "n", "s", "e", " ", "t", "i", "m", "e">>,
         <<"t", "i", "m", "e", "d", " ", "o", "u", "t", " ", "a", "f", "t", "e", "r">>>>]
>>

WordChars == {"0", "1", "2", "3", "4", "5", "6", "7", "8", "9", "S", "T", "_", "a", "b", "c", "d", "e", "f", "g", "h", "i", "j", "k", "l", "m", "n", "o", "p", "q", "r", "s", "t", "u", "v", "w", "x", "y", "z"}

lowerChar(c) ==
    CASE c = "S" -> "s"
      [] c = "T" -> "t"
      [] OTHER -> c

\* msg.lower()
lowerChars(t) == [i \in 1..Len(t) |-> lowerChar(t[i])]

\* \b at position j: between a word character and a non-word character (or an end).
wordBoundary(t, j) ==
    (j > 1 /\ t[j - 1] \in WordChars) # (j <= Len(t) /\ t[j] \in WordChars)

\* The atoms of p from the i-th on match the text from position j on.
RECURSIVE matchHere(_, _, _, _)
matchHere(p, i, t, j) ==
    IF i > Len(p) THEN TRUE
    ELSE IF p[i] = "WB" THEN wordBoundary(t, j) /\ matchHere(p, i + 1, t, j)
    ELSE IF p[i] = "STAR"
         THEN \E k \in j..(Len(t) + 1) :
                  /\ \A m \in j..(k - 1) : t[m] # "\n"
                  /\ matchHere(p, i + 1, t, k)
    ELSE IF p[i] = "ANY" THEN j <= Len(t) /\ t[j] # "\n" /\ matchHere(p, i + 1, t, j + 1)
    ELSE j <= Len(t) /\ t[j] = p[i] /\ matchHere(p, i + 1, t, j + 1)

\* re.search(p, text)
search(p, t) == \E j \in 1..(Len(t) + 1) : matchHere(p, 1, t, j)

\* msg is None
None == <<"None">>

\* The two loops: rules in table order, the patterns of a rule in listed order.
RECURSIVE firstMatch(_, _, _)
firstMatch(rules, k, t) ==
    IF k > Len(rules) THEN "Other"
    ELSE IF \E q \in 1..Len(rules[k].patterns) : search(lowerChars(rules[k].patterns[q]), t)
         THEN rules[k].label
         ELSE firstMatch(rules, k + 1, t)

\* The table read from its last rule to its first.
categorize_reversed(m) ==
    LET t == lowerChars(IF m = None THEN <<>> ELSE m)
        n == Len(CATEGORY_PATTERNS)
    IN  firstMatch([k \in 1..n |-> CATEGORY_PATTERNS[n + 1 - k]], 1, t)

categorize_message(m) ==
    LET t == lowerChars(IF m = None THEN <<>> ELSE m)
    IN  firstMatch(CATEGORY_PATTERNS, 1, t)

MaxWords == 2

Words == {
    <<"t", "i", "m", "e", "d", " ", "o", "u", "t">>,
    <<"T", "i", "m", "e", "o", "u", "t">>,
    <<"c", "o", "n", "n", "e", "c", "t", "i", "o", "n", " ">>,
    <<" ", "a", "f", "t", "e", "r">>,
    <<"a", "s", "s", "e", "r", "t">>,
    <<"i", "o", "n">>,
    <<"e", "r", "r", "o", "r">>,
    <<"d", "b">>,
    <<"x">>,
    <<" ">>,
    <<"4", "0", "3">>,
    <<"e", "x", "p", "e", "c", "t", "e", "d", " ">>,
    <<"b", "u", "t">>,
    <<"\n">>,
    <<"S", "l", "o", "w">>,
    <<"s", "o", "c", "k", "e", "t">>
}

RECURSIVE flatten(_)
flatten(ws) == IF ws = <<>> THEN <<>> ELSE Head(ws) \o flatten(Tail(ws))

Messages == {None} \cup {flatten(ws) : ws \in UNION {[1..n -> Words] : n \in 0..MaxWords}}

InitCategorize ==
    /\ pc = "categorize"
    /\ msg \in Messages
    /\ category = ""
    /\ soup = <<>> /\ hashOrder = <<>> /\ results = <<>> /\ attempted = <<>>
    /\ producer = 0 /\ node = 0 /\ outcome = <<>>
    /\ res_a = <<>> /\ res_b = <<>> /\ merged = <<>>

Categorize ==
    /\ pc = "categorize"
    /\ category' = categorize_message(msg)
    /\ pc' = "categorized"
    /\ UNCHANGED <<soup, hashOrder, results, attempted, producer, node, outcome, msg,
                   res_a, res_b, merged>>

SpecCategorize == InitCategorize /\ [][Categorize]_vars

\* Rule k of the table has a pattern that matches somewhere in the lowercased text.
ruleMatches(k) ==
    \E q \in 1..Len(CATEGORY_PATTERNS[k].patterns) :
        search(CATEGORY_PATTERNS[k].patterns[q], lowerChars(IF msg = None THEN <<>> ELSE msg))

\* C6: categorize returns a label for every text (the empty and the missing one
\* too): the label of the first rule in table order with a matching pattern, also
\* when a later rule matches, and "Other" exactly when no rule matches.
C6_FirstRuleInTableOrder ==
    pc = "categorized" =>
        LET hit == {k \in 1..Len(CATEGORY_PATTERNS) : ruleMatches(k)}
        IN  /\ category \in {CATEGORY_PATTERNS[k].label : k \in 1..Len(CATEGORY_PATTERNS)}
                              \cup {"Other"}
            /\ category = "Other" <=> hit = {}
            /\ hit # {} =>
                 category = CATEGORY_PATTERNS[CHOOSE k \in hit : \A m \in hit : k <= m].label

\* C6 witness: a text that the more specific pattern "connection timed out" of the
\* fourth rule matches has been given the label of the first rule.
C6_Witness ==
    /\ pc = "categorized"
    /\ ruleMatches(1) /\ ruleMatches(4)
    /\ category = "Timeout"

----------------------------------------------------------------------------
(* Compare Two Reports: df_from_results, the outer merge on testkey and    *)
(* change_type.  The records are those parse_xml_report returns; message    *)
(* and details are character texts here, as categorize_message reads them.  *)

\* str.lower() of a status, then the replace map of df_from_results.
status_norm(status) ==
    LET low == CASE status = "PASS" -> "pass"
                 [] status = "FAIL" -> "fail"
                 [] status = "SKIPPED" -> "skipped"
                 [] OTHER -> status
    IN  CASE low \in {"passed", "pass", "ok"} -> "pass"
          [] low \in {"failed", "fail", "error"} -> "fail"
          [] low \in {"skipped", "skip"} -> "skipped"
          [] OTHER -> low

Db == <<"d", "b">>

\* message + " " + details of the records compared, with their category:
\* categorize_message applied once to each text.
categoryOf ==
    [t \in {m \o <<" ">> \o d : m \in {<<>>, Db}, d \in {<<>>}} |-> categorize_message(t)]

\* One row of the frame df_from_results builds.
df_row(r) ==
    [testcase |-> r.testcase, classname |-> r.classname, status |-> r.status,
     status_norm |-> status_norm(r.status),
     category |-> categoryOf[r.message \o <<" ">> \o r.details],
     testkey |-> r.testcase \o "||" \o r.classname]

\* pd.DataFrame([]) has no column "status": df["status"] raises KeyError.
df_raises(res) == res = <<>>

df_from_results(res) == [k \in 1..Len(res) |-> df_row(res[k])]

\* The keys of the inputs, in the order the outer merge sorts them.
KeyOrder == <<"t1||c", "t2||c">>

\* A label that also turns a side the key is missing from into Other/Changed.
change_type_unknown(a, b) ==
    IF a = "unknown" \/ b = "unknown" THEN "Other/Changed"
    ELSE IF a # "fail" /\ b = "fail" THEN "New Failure"
    ELSE IF a = "fail" /\ b # "fail" THEN "Fixed"
    ELSE IF a = "fail" /\ b = "fail" THEN "Persistent Failure"
    ELSE IF a = "pass" /\ b = "pass" THEN "Still Passing"
    ELSE "Other/Changed"

change_type(a, b) ==
    IF a # "fail" /\ b = "fail" THEN "New Failure"
    ELSE IF a = "fail" /\ b # "fail" THEN "Fixed"
    ELSE IF a = "fail" /\ b = "fail" THEN "Persistent Failure"
    ELSE IF a = "pass" /\ b = "pass" THEN "Still Passing"
    ELSE "Other/Changed"

\* A row of the merged frame: a side that is missing (0) is NaN, filled from the
\* other side (testcase, classname) or with "unknown" (status).
merged_row(df_a, df_b, i, j) ==
    LET status_a == IF i = 0 THEN "unknown" ELSE df_a[i].status_norm
        status_b == IF j = 0 THEN "unknown" ELSE df_b[j].status_norm
    IN  [testkey |-> IF i # 0 THEN df_a[i].testkey ELSE df_b[j].testkey,
         testcase |-> IF i # 0 THEN df_a[i].testcase ELSE df_b[j].testcase,
         classname |-> IF i # 0 THEN df_a[i].classname ELSE df_b[j].classname,
         status_a |-> status_a, status_b |-> status_b,
         change |-> change_type(status_a, status_b)]

\* The rows of one key: every pairing of a row of A with a row of B that carry the
\* key, or the rows of the one side that carries it.
RECURSIVE pairRows(_, _, _, _)
pairRows(df_a, df_b, ia, ib) ==
    IF ia = <<>> THEN <<>>
    ELSE [k \in 1..Len(ib) |-> merged_row(df_a, df_b, Head(ia), ib[k])]
         \o pairRows(df_a, df_b, Tail(ia), ib)

keyRows(df_a, df_b, key) ==
    LET ia == SelectSeq(Indices(df_a), LAMBDA i : df_a[i].testkey = key)
        ib == SelectSeq(Indices(df_b), LAMBDA j : df_b[j].testkey = key)
    IN  IF ib = <<>> THEN [k \in 1..Len(ia) |-> merged_row(df_a, df_b, ia[k], 0)]
        ELSE IF ia = <<>> THEN [k \in 1..Len(ib) |-> merged_row(df_a, df_b, 0, ib[k])]
        ELSE pairRows(df_a, df_b, ia, ib)

RECURSIVE mergeKeys(_, _, _)
mergeKeys(df_a, df_b, keys) ==
    IF keys = <<>> THEN <<>>
    ELSE keyRows(df_a, df_b, Head(keys)) \o mergeKeys(df_a, df_b, Tail(keys))

\* An inner join: the keys of one side only are dropped.
merge_inner(df_a, df_b) ==
    mergeKeys(df_a, df_b,
              SelectSeq(KeyOrder, LAMBDA key :
                  /\ \E i \in 1..Len(df_a) : df_a[i].testkey = key
                  /\ \E j \in 1..Len(df_b) : df_b[j].testkey = key))

\* pd.merge(df_a, df_b, on="testkey", how="outer") with the columns added after it.
merge_outer(df_a, df_b) == mergeKeys(df_a, df_b, KeyOrder)

MaxRecs == 2

Records ==
    {[testcase |-> t, classname |-> "c", status |-> st, time |-> "",
      message |-> IF st = "FAIL" THEN Db ELSE <<>>, details |-> <<>>] :
        t \in {"t1", "t2"}, st \in {"PASS", "FAIL", "SKIPPED"}}

RecordLists == UNION {[1..n -> Records] : n \in 0..MaxRecs}

InitCompare ==
    /\ pc = "compare"
    /\ res_a \in RecordLists
    /\ res_b \in RecordLists
    /\ merged = <<>>
    /\ soup = <<>> /\ hashOrder = <<>> /\ results = <<>> /\ attempted = <<>>
    /\ producer = 0 /\ node = 0 /\ outcome = <<>> /\ msg = <<>> /\ category = ""

\* The handler of the Compare tab, both reports parsed.
Compare ==
    /\ pc = "compare"
    /\ ~df_raises(res_a) /\ ~df_raises(res_b)
    /\ merged' = merge_outer(df_from_results(res_a), df_from_results(res_b))
    /\ pc' = "compared"
    /\ UNCHANGED <<soup, hashOrder, results, attempted, producer, node, outcome, msg,
                   category, res_a, res_b>>

\* except Exception as e: st.error(...)
CompareError ==
    /\ pc = "compare"
    /\ df_raises(res_a) \/ df_raises(res_b)
    /\ pc' = "error"
    /\ UNCHANGED <<soup, hashOrder, results, attempted, producer, node, outcome, msg,
                   category, res_a, res_b, merged>>

SpecCompare == InitCompare /\ [][Compare \/ CompareError]_vars

----------------------------------------------------------------------------
(* Claims about the comparison.                                            *)

Statuses == {"pass", "fail", "skipped", "unknown"}

\* The transition table of the specification, top to bottom.
TransitionTable == <<
    [a |-> Statuses \ {"fail"}, b |-> {"fail"},              change |-> "New Failure"],
    [a |-> {"fail"},            b |-> Statuses \ {"fail"},   change |-> "Fixed"],
    [a |-> {"fail"},            b |-> {"fail"},              change |-> "Persistent Failure"],
    [a |-> {"pass"},            b |-> {"pass"},              change |-> "Still Passing"],
    [a |-> Statuses,            b |-> Statuses,              change |-> "Other/Changed"]
>>

tableLabel(a, b) ==
    LET rows == {k \in 1..Len(TransitionTable) :
                    a \in TransitionTable[k].a /\ b \in TransitionTable[k].b}
    IN  TransitionTable[CHOOSE k \in rows : \A m \in rows : k <= m].change

\* C7: every row of the comparison carries the label of the first row of the
\* transition table that matches its pair of normalised statuses.
C7_TransitionTable ==
    pc = "compared" =>
        \A k \in 1..Len(merged) :
            /\ merged[k].status_a \in Statuses /\ merged[k].status_b \in Statuses
            /\ merged[k].change = tableLabel(merged[k].status_a, merged[k].status_b)

\* C7 witness: rows of the first and of the last line of the table have been labelled.
C7_Witness ==
    /\ pc = "compared"
    /\ \E k \in 1..Len(merged) :
          merged[k].status_a = "unknown" /\ merged[k].status_b = "fail"
          /\ merged[k].change = "New Failure"
    /\ \E k \in 1..Len(merged) :
          merged[k].status_a = "skipped" /\ merged[k].status_b = "pass"
          /\ merged[k].change = "Other/Changed"

\* C8: compare(R, R), for records R that all have status PASS or FAIL, gives only
\* the labels Still Passing and Persistent Failure.
C8_SelfComparison ==
    (/\ pc = "compared" /\ res_a = res_b
     /\ \A k \in 1..Len(res_a) : res_a[k].status \in {"PASS", "FAIL"})
    => \A k \in 1..Len(merged) :
           merged[k].change \in {"Still Passing", "Persistent Failure"}

\* C9 as stated: a key that only B has, failing in B, is labelled Other/Changed.
C9_OnlyInBIsOtherChanged ==
    pc = "compared" =>
        \A k \in 1..Len(merged) :
            (merged[k].status_a = "unknown" /\ merged[k].status_b = "fail")
                => merged[k].change = "Other/Changed"

Rec(t, st) ==
    [testcase |-> t, classname |-> "c", status |-> st, time |-> "",
     message |-> IF st = "FAIL" THEN Db ELSE <<>>, details |-> <<>>]

\* C9 amended: a key that only B has, failing in B, is labelled New Failure;
\* A = {t1/c PASS}, B = {t1/c FAIL, t2/c FAIL} gives exactly two results, t1 and
\* t2, both New Failure, t2 with the status of side A unknown.
C9_OnlyInBIsNewFailure ==
    pc = "compared" =>
        /\ \A k \in 1..Len(merged) :
              (merged[k].status_a = "unknown" /\ merged[k].status_b = "fail")
                  => merged[k].change = "New Failure"
        /\ (res_a = <<Rec("t1", "PASS")>> /\ res_b = <<Rec("t1", "FAIL"), Rec("t2", "FAIL")>>)
              => /\ Len(merged) = 2
                 /\ \E k \in 1..2 : /\ merged[k].testcase = "t1"
                                    /\ merged[k].status_a = "pass"
                                    /\ merged[k].change = "New Failure"
                 /\ \E k \in 1..2 : /\ merged[k].testcase = "t2"
                                    /\ merged[k].status_a = "unknown"
                                    /\ merged[k].change = "New Failure"

\* C9 witness: the scenario has been compared.
C9_Witness ==
    /\ pc = "compared"
    /\ res_a = <<Rec("t1", "PASS")>>
    /\ res_b = <<Rec("t1", "FAIL"), Rec("t2", "FAIL")>>
    /\ Len(merged) = 2

keysOf(res) == {res[k].testcase \o "||" \o res[k].classname : k \in 1..Len(res)}

\* C10: the comparison holds exactly one row per distinct key of A and B together,
\* with the status of a side that lacks the key unknown.
C10_OneRowPerKey ==
    pc = "compared" =>
        /\ Len(merged) = Cardinality(keysOf(res_a) \cup keysOf(res_b))
        /\ \A key \in keysOf(res_a) \cup keysOf(res_b) :
              Cardinality({k \in 1..Len(merged) : merged[k].testkey = key}) = 1
        /\ \A k \in 1..Len(merged) :
              /\ merged[k].testkey \notin keysOf(res_a) => merged[k].status_a = "unknown"
              /\ merged[k].testkey \notin keysOf(res_b) => merged[k].status_b = "unknown"

====
